---- MODULE Spec2Model ----
(***************************************************************************)
(* A model of icloud_auto_download.py: the month planner, the asset        *)
(* filter, the filename deriver, the downloader with its retry loop and    *)
(* the orchestrator main(), over a filesystem of (directory, name) paths.  *)
(*                                                                         *)
(* Strings are tuples of one-character strings.  A datetime is a record of *)
(* its seven fields (all UTC).  Durations are in tenths of a second.       *)
(* The remote service is the environment: every invocation of an asset's   *)
(* download capability either raises, or hands back the asset's payload,   *)
(* whose writing to disk either completes or fails after some bytes.       *)
(* login() and os.makedirs() are taken to succeed (their failure ends the  *)
(* process before or outside the loops modelled here).                     *)
(***************************************************************************)
EXTENDS Integers, Sequences, FiniteSets, TLC

VARIABLES
    config,     \* [start, end, skip_videos]: START_MONTH, END_MONTH, SKIP_VIDEOS
    photos,     \* api.photos.all: the remote listing, a sequence of assets
    dirs,       \* directories that exist under the base output directory
    files,      \* the files under it: path -> [size, by, complete]
    pc,         \* position of main()
    run,        \* which run of main() this is (1 = first)
    gen,        \* the month_range generator: [cur, end_norm, yielded]
    month,      \* main's loop variables: [month_dt, out_dir, matched, idx]
    call,       \* the frame of the download_asset call in progress
    log,        \* history: one entry per returned download_asset call
    plan,       \* history: one entry per month main() has started
    calls,      \* number of direct download_asset calls made (SpecCall)
    named       \* the asset and the target name computed for it (SpecNames)

vars == <<config, photos, dirs, files, pc, run, gen, month, call, log, plan,
          calls, named>>

\* None
Null == [none |-> TRUE]

(***************************************************************************)
(* Bounds of the model.                                                    *)
(***************************************************************************)
MaxAssets == 2      \* longest remote listing
MaxRuns == 2        \* runs of main() in a row over the same directory
MaxCalls == 2       \* direct calls of download_asset in a row
MaxRetries == 3     \* largest max_retries passed to a direct call
MaxLen == 3         \* longest original filename of the filename deriver's inputs
BaseYear == 2025    \* first year of the month planner's inputs
YearSpan == 2       \* number of years of the month planner's inputs

(***************************************************************************)
(* Program constants.                                                      *)
(***************************************************************************)
DEFAULT_MAX_RETRIES == 3
SLEEP_BETWEEN_DOWNLOADS == 3
BACKOFF_UNIT == 15

(***************************************************************************)
(* Strings.                                                                *)
(***************************************************************************)
Digit == <<"0", "1", "2", "3", "4", "5", "6", "7", "8", "9">>
UpperCase == <<"A", "B", "C", "D", "E", "F", "G", "H", "I", "J", "K", "L", "M",
               "N", "O", "P", "Q", "R", "S", "T", "U", "V", "W", "X", "Y", "Z">>
LowerCase == <<"a", "b", "c", "d", "e", "f", "g", "h", "i", "j", "k", "l", "m",
               "n", "o", "p", "q", "r", "s", "t", "u", "v", "w", "x", "y", "z">>

\* The characters safe_filename removes.
Reserved == {"<", ">", ":", "\"", "/", "\\", "|", "?", "*"}
Whitespace == {" "}

RECURSIVE Pad(_, _)
\* n in decimal, zero-padded to w digits (strftime's %Y %m %d %H %M %S).
Pad(n, w) == IF w = 0 THEN <<>> ELSE Append(Pad(n \div 10, w - 1), Digit[(n % 10) + 1])

DigitValue(c) == (CHOOSE d \in 1..10 : Digit[d] = c) - 1

RECURSIVE ToNumber(_)
\* The number a string of decimal digits denotes (strptime's %Y and %m).
ToNumber(s) ==
    IF s = <<>> THEN 0
    ELSE 10 * ToNumber(SubSeq(s, 1, Len(s) - 1)) + DigitValue(s[Len(s)])

LowerChar(c) ==
    IF \E k \in 1..26 : UpperCase[k] = c
    THEN LowerCase[CHOOSE k \in 1..26 : UpperCase[k] = c]
    ELSE c

\* str.lower()
Lower(s) == [k \in 1..Len(s) |-> LowerChar(s[k])]

IsWs(c) == c \in Whitespace

RECURSIVE LStrip(_)
LStrip(s) == IF s # <<>> /\ IsWs(s[1]) THEN LStrip(Tail(s)) ELSE s

RECURSIVE RStrip(_)
RStrip(s) ==
    IF s # <<>> /\ IsWs(s[Len(s)]) THEN RStrip(SubSeq(s, 1, Len(s) - 1)) ELSE s

\* str.strip(), the space standing for every whitespace character
Strip(s) == RStrip(LStrip(s))

\* The test of safe_filename's generator expression.
Keep(c) == c \notin Reserved

safe_filename(name) == Strip(SelectSeq(name, Keep))

Contains(s, c) == \E k \in 1..Len(s) : s[k] = c

LastIndexOf(s, c) == CHOOSE k \in 1..Len(s) : s[k] = c /\ \A j \in (k + 1)..Len(s) : s[j] # c

\* name.split(c)[-1]
AfterLast(s, c) == SubSeq(s, LastIndexOf(s, c) + 1, Len(s))

(***************************************************************************)
(* Dates.                                                                  *)
(***************************************************************************)
Dt(y, mo, d, h, mi, s, us) ==
    [year |-> y, month |-> mo, day |-> d, hour |-> h, minute |-> mi,
     second |-> s, microsecond |-> us]

DtTuple(dt) == <<dt.year, dt.month, dt.day, dt.hour, dt.minute, dt.second,
                 dt.microsecond>>

RECURSIVE LexLE(_, _)
LexLE(a, b) ==
    IF a = <<>> THEN TRUE
    ELSE IF a[1] # b[1] THEN a[1] < b[1]
    ELSE LexLE(Tail(a), Tail(b))

\* datetime.__le__ of two aware datetimes of the same zone.
DtLE(a, b) == LexLE(DtTuple(a), DtTuple(b))

IsLeap(y) == (y % 4 = 0) /\ ((y % 100 # 0) \/ (y % 400 = 0))

\* calendar.monthrange(y, mo)[1]
DaysInMonth(y, mo) ==
    IF mo = 2 THEN (IF IsLeap(y) THEN 29 ELSE 28)
    ELSE IF mo \in {4, 6, 9, 11} THEN 30 ELSE 31

\* datetime.strptime(month_str, "%Y-%m").replace(tzinfo=timezone.utc)
parse_month(month_str) ==
    Dt(ToNumber(SubSeq(month_str, 1, 4)), ToNumber(SubSeq(month_str, 6, 7)),
       1, 0, 0, 0, 0)

Min(a, b) == IF a < b THEN a ELSE b

\* dt + relativedelta(months=1): the next month, the day clipped to its length.
AddMonth(dt) ==
    LET y == IF dt.month = 12 THEN dt.year + 1 ELSE dt.year
        mo == IF dt.month = 12 THEN 1 ELSE dt.month + 1
    IN [dt EXCEPT !.year = y, !.month = mo, !.day = Min(dt.day, DaysInMonth(y, mo))]

\* month_range, the generator object on its creation ...
month_range(start_month_dt, end_month_dt) ==
    [cur |-> [start_month_dt EXCEPT !.day = 1],
     end_norm |-> [end_month_dt EXCEPT !.day = 1],
     yielded |-> <<>>]

GenHasNext_Exclusive(g) == DtLE(g.cur, g.end_norm) /\ g.cur # g.end_norm

\* ... the test of its while loop ...
GenHasNext(g) == DtLE(g.cur, g.end_norm)

\* ... and one turn of the loop: yield cur, then cur += relativedelta(months=1).
GenAdvance(g) == [g EXCEPT !.cur = AddMonth(g.cur), !.yielded = Append(g.yielded, g.cur)]

month_bounds(month_dt) ==
    LET first == [month_dt EXCEPT !.day = 1, !.hour = 0, !.minute = 0, !.second = 0,
                                  !.microsecond = 0]
        last_day == DaysInMonth(first.year, first.month)
        last == [first EXCEPT !.day = last_day, !.hour = 23, !.minute = 59, !.second = 59]
    IN <<first, last>>

\* strftime("%Y%m%d_%H%M%S")
TimeTag(dt) ==
    Pad(dt.year, 4) \o Pad(dt.month, 2) \o Pad(dt.day, 2) \o <<"_">>
    \o Pad(dt.hour, 2) \o Pad(dt.minute, 2) \o Pad(dt.second, 2)

\* strftime("%Y-%m")
MonthTag(dt) == Pad(dt.year, 4) \o <<"-">> \o Pad(dt.month, 2)

(***************************************************************************)
(* Assets: [id, filename, item_type, created, payload].  filename is <<>>  *)
(* when the record has none; created is Null or a datetime; payload is the *)
(* number of bytes the download capability delivers when it succeeds.      *)
(***************************************************************************)
Asset(id, filename, item_type, created, payload) ==
    [id |-> id, filename |-> filename, item_type |-> item_type,
     created |-> created, payload |-> payload]

asset_timestamp(asset) == asset.created

is_in_month_Strict(asset, start_dt, end_dt) ==
    LET ts == asset_timestamp(asset)
    IN IF ts = Null THEN FALSE ELSE DtLE(start_dt, ts) /\ DtLE(ts, end_dt) /\ ts # end_dt

is_in_month(asset, start_dt, end_dt) ==
    LET ts == asset_timestamp(asset)
    IN IF ts = Null THEN FALSE ELSE DtLE(start_dt, ts) /\ DtLE(ts, end_dt)

file_ext(asset) ==
    LET name == Lower(asset.filename)
    IN IF Contains(name, ".") THEN <<".">> \o AfterLast(name, ".")
       ELSE IF asset.item_type = "video" THEN <<".", "m", "o", "v">>
       ELSE <<".", "j", "p", "g">>

build_filename(asset) ==
    LET ts == asset_timestamp(asset)
        base_time == IF ts # Null THEN TimeTag(ts) ELSE <<"u", "n", "k", "n", "o", "w", "n">>
        base == base_time \o <<"_">> \o (IF asset.filename # <<>> THEN asset.filename ELSE asset.id)
    IN safe_filename(base)

\* download_asset's target_name
TargetName(asset) == build_filename(asset) \o file_ext(asset)

\* os.path.join(out_dir, target_name), relative to the base output directory
TargetPath(out_dir, asset) == <<out_dir, TargetName(asset)>>

(***************************************************************************)
(* The filesystem under the base output directory.  A file's size is what  *)
(* the program reads; by (the asset whose download wrote it) and complete  *)
(* (the write ran to its end) are history the program never sees.          *)
(***************************************************************************)
BaseDir == <<>>

ensure_dir(ds, path) == ds \cup {path}

\* os.path.exists(p) and os.path.getsize(p) > 0
ExistsNonEmpty(fs, p) == p \in DOMAIN fs /\ fs[p].size > 0

\* open(p, "wb") and the writes up to the close: n bytes end up in the file.
WriteFile(fs, p, n, id, whole) ==
    [q \in DOMAIN fs \cup {p} |->
        IF q = p THEN [size |-> n, by |-> id, complete |-> whole] ELSE fs[q]]

(***************************************************************************)
(* What one turn of download_asset's try block can meet: download() raises *)
(* (nothing is opened), the write fails after n bytes of the payload, or   *)
(* the whole payload is written.                                           *)
(***************************************************************************)
Outcomes(asset) ==
    {[kind |-> "raise", exc |-> "ConnectionError", n |-> 0]}
    \cup {[kind |-> "write_fail", exc |-> "OSError", n |-> k] :
             k \in 0..(IF asset.payload = 0 THEN 0 ELSE asset.payload - 1)}
    \cup {[kind |-> "ok", exc |-> "none", n |-> asset.payload]}

ExceptionClasses == {"ConnectionError", "OSError"}

IsCaught_RequestOnly(exc) == exc = "ConnectionError"

\* except Exception
IsCaught(exc) == exc \in ExceptionClasses

SkipsVideo_AnyKind(skip_videos, asset) == skip_videos

\* SKIP_VIDEOS and getattr(asset, "item_type", "") == "video"
SkipsVideo(skip_videos, asset) == skip_videos /\ asset.item_type = "video"

BackoffDelay_Flat(attempt) == BACKOFF_UNIT

\* 1.5 * attempt, in tenths of a second
BackoffDelay(attempt) == BACKOFF_UNIT * attempt

RetryGuard(attempt, max_retries) == attempt < max_retries

IdleCall == [pc |-> "idle"]

\* The frame of download_asset(asset, out_dir, max_retries) on entry.
NewCall(asset, out_dir, max_retries) ==
    [pc |-> "enter", asset |-> asset, out_dir |-> out_dir, max_retries |-> max_retries,
     target_path |-> <<>>, attempt |-> 0, last_err |-> "None", invoked |-> 0,
     sleeps |-> <<>>, status |-> "", result |-> <<>>, fs0 |-> files, fs_used |-> FALSE]

\* Lines 111-121: the video skip, the target path, the skip of a present file.
DownloadEnter ==
    /\ call.pc = "enter"
    /\ IF SkipsVideo(config.skip_videos, call.asset)
       THEN call' = [call EXCEPT !.pc = "returned", !.status = "skipped_video"]
       ELSE LET target_path == TargetPath(call.out_dir, call.asset)
            IN IF ExistsNonEmpty(files, target_path)
               THEN call' = [call EXCEPT !.pc = "returned", !.status = "skip",
                                         !.target_path = target_path,
                                         !.result = target_path, !.fs_used = TRUE]
               ELSE call' = [call EXCEPT !.pc = "loop", !.target_path = target_path,
                                         !.fs_used = TRUE]
    /\ UNCHANGED <<config, photos, dirs, files, pc, run, gen, month, log, plan,
                   calls, named>>

\* Lines 123-131: one turn of the retry loop.
DownloadAttempt ==
    /\ call.pc = "loop"
    /\ RetryGuard(call.attempt, call.max_retries)
    /\ \E o \in Outcomes(call.asset) :
          /\ files' = IF o.kind = "raise" THEN files
                      ELSE WriteFile(files, call.target_path, o.n, call.asset.id,
                                     o.kind = "ok")
          /\ IF o.kind = "ok"
             THEN call' = [call EXCEPT !.pc = "returned", !.status = "ok",
                                       !.invoked = @ + 1, !.result = call.target_path]
             ELSE IF IsCaught(o.exc)
             THEN call' = [call EXCEPT !.last_err = o.exc, !.invoked = @ + 1,
                                       !.attempt = @ + 1,
                                       !.sleeps = Append(@, BackoffDelay(call.attempt + 1))]
             ELSE call' = [call EXCEPT !.pc = "raised", !.last_err = o.exc,
                                       !.invoked = @ + 1]
    /\ UNCHANGED <<config, photos, dirs, pc, run, gen, month, log, plan, calls, named>>

\* Line 133: the loop is over without a success.
DownloadExhausted ==
    /\ call.pc = "loop"
    /\ ~RetryGuard(call.attempt, call.max_retries)
    /\ call' = [call EXCEPT !.pc = "returned", !.status = "error",
                            !.result = <<call.last_err>>]
    /\ UNCHANGED <<config, photos, dirs, files, pc, run, gen, month, log, plan,
                   calls, named>>

\* What the history keeps of a call that has returned.
LogEntry(c, r) ==
    [run |-> r, out_dir |-> c.out_dir, asset |-> c.asset.id, path |-> c.target_path,
     status |-> c.status, invoked |-> c.invoked > 0, wrote |-> files # c.fs0,
     paused |-> 0]

(***************************************************************************)
(* main()                                                                  *)
(***************************************************************************)
NoMonth == [month_dt |-> Null, out_dir |-> <<>>, matched |-> <<>>, idx |-> 0]

InThisMonth(a) == is_in_month(a, month_bounds(gen.cur)[1], month_bounds(gen.cur)[2])

\* Lines 137-145: the configuration is parsed, the listing is at hand, the base
\* directory exists and the loop over month_range(start_dt, end_dt) begins.
MainStart ==
    /\ pc = "start"
    /\ gen' = month_range(parse_month(config.start), parse_month(config.end))
    /\ dirs' = ensure_dir(dirs, BaseDir)
    /\ pc' = "months"
    /\ UNCHANGED <<config, photos, files, run, month, call, log, plan, calls, named>>

\* Lines 147-154: the generator yields a month; its directory and its matches.
MainMonth ==
    /\ pc = "months"
    /\ GenHasNext(gen)
    /\ LET month_dt == gen.cur
           out_dir == MonthTag(month_dt)
           matched == SelectSeq(photos, InThisMonth)
       IN /\ gen' = GenAdvance(gen)
          /\ dirs' = ensure_dir(dirs, out_dir)
          /\ month' = [month_dt |-> month_dt, out_dir |-> out_dir,
                       matched |-> matched, idx |-> 1]
          /\ plan' = Append(plan, [run |-> run, month_dt |-> month_dt,
                                   matched |-> matched])
          /\ pc' = IF matched = <<>> THEN "months" ELSE "assets"
    /\ UNCHANGED <<config, photos, files, run, call, log, calls, named>>

\* Line 157: the next matched asset goes to download_asset.
MainCallDownload ==
    /\ pc = "assets"
    /\ call.pc = "idle"
    /\ call' = NewCall(month.matched[month.idx], month.out_dir, DEFAULT_MAX_RETRIES)
    /\ pc' = "called"
    /\ UNCHANGED <<config, photos, dirs, files, run, gen, month, log, plan, calls, named>>

\* Lines 158-161: the call is back; on to the next asset or the next month.  An
\* exception that leaves download_asset ends main().
MainAfterCall ==
    /\ pc = "called"
    /\ call.pc \in {"returned", "raised"}
    /\ IF call.pc = "raised"
       THEN /\ pc' = "crashed"
            /\ UNCHANGED <<month, log>>
       ELSE /\ log' = Append(log, [LogEntry(call, run) EXCEPT !.paused =
                          IF call.status = "ok" THEN SLEEP_BETWEEN_DOWNLOADS ELSE 0])
            /\ month' = [month EXCEPT !.idx = @ + 1]
            /\ pc' = IF month.idx < Len(month.matched) THEN "assets" ELSE "months"
    /\ call' = IdleCall
    /\ UNCHANGED <<config, photos, dirs, files, run, gen, plan, calls, named>>

\* Line 163: the generator is exhausted; the completion report.
MainDone ==
    /\ pc = "months"
    /\ ~GenHasNext(gen)
    /\ pc' = "done"
    /\ UNCHANGED <<config, photos, dirs, files, run, gen, month, call, log, plan,
                   calls, named>>

\* The program is run again, against the same listing and directory.
MainRerun ==
    /\ pc = "done"
    /\ run < MaxRuns
    /\ run' = run + 1
    /\ pc' = "start"
    /\ month' = NoMonth
    /\ UNCHANGED <<config, photos, dirs, files, gen, call, log, plan, calls, named>>

(***************************************************************************)
(* download_asset called on its own, with any max_retries.                 *)
(***************************************************************************)
CallDir == MonthTag(Dt(2026, 1, 1, 0, 0, 0, 0))

DirectReturn ==
    /\ pc = "direct"
    /\ call.pc = "returned"
    /\ log' = Append(log, LogEntry(call, calls))
    /\ call' = IdleCall
    /\ UNCHANGED <<config, photos, dirs, files, pc, run, gen, month, plan, calls, named>>

(***************************************************************************)
(* The inputs.                                                             *)
(***************************************************************************)
RECURSIVE StringsUpTo(_, _)
\* The strings over alphabet of at most n characters.
StringsUpTo(alphabet, n) ==
    IF n = 0 THEN {<<>>}
    ELSE LET shorter == StringsUpTo(alphabet, n - 1)
         IN shorter \cup {Append(s, c) : s \in shorter, c \in alphabet}

TMid == Dt(2026, 1, 15, 10, 20, 30, 0)
TLastSecond == Dt(2026, 1, 31, 23, 59, 59, 0)
TLastInstant == Dt(2026, 1, 31, 23, 59, 59, 500000)
TNextMonth == Dt(2026, 2, 1, 0, 0, 0, 0)

\* A photo, a second record of the same photo (an import made twice), a video
\* taken in the last second of a month, an empty photo of the month after, a
\* video without a date, a photo of the last whole second of the month.
AssetPool ==
    {Asset(<<"A">>, <<"i", ".", "J">>, "image", TMid, 2),
     Asset(<<"B">>, <<"i", ".", "J">>, "image", TMid, 1),
     Asset(<<"C">>, <<>>, "video", TLastInstant, 1),
     Asset(<<"D">>, <<"e">>, "image", TNextMonth, 0),
     Asset(<<"E">>, <<"v">>, "video", Null, 1),
     Asset(<<"F">>, <<"f">>, "image", TLastSecond, 1)}

RECURSIVE ListingsUpTo(_)
\* The listings of at most n assets of the pool, none twice.
ListingsUpTo(n) ==
    IF n = 0 THEN {<<>>}
    ELSE LET shorter == ListingsUpTo(n - 1)
         IN shorter \cup {Append(l, a) : l \in shorter, a \in AssetPool}

Distinct(l) == \A i, j \in 1..Len(l) : i # j => l[i] # l[j]

Listings == {l \in ListingsUpTo(MaxAssets) : Distinct(l)}

ConfigMonths ==
    {MonthTag(Dt(2025, 12, 1, 0, 0, 0, 0)), MonthTag(Dt(2026, 1, 1, 0, 0, 0, 0)),
     MonthTag(Dt(2026, 2, 1, 0, 0, 0, 0))}

PlannerMonths ==
    {MonthTag(Dt(y, m, 1, 0, 0, 0, 0)) : y \in BaseYear..(BaseYear + YearSpan - 1),
                                        m \in 1..12}

NameAlphabet == {"a", "J", ".", ":", " "}

NameInputs ==
    {Asset(id, filename, item_type, created, 1) :
        id \in {<<"A">>, <<"x", "/", "y">>},
        filename \in StringsUpTo(NameAlphabet, MaxLen),
        item_type \in {"image", "video"},
        created \in {Null, TMid}}

NoGen == [cur |-> Null, end_norm |-> Null, yielded |-> <<>>]
NoName == [asset |-> Null, name |-> <<>>, done |-> FALSE]
NoConfig == [start |-> <<>>, end |-> <<>>, skip_videos |-> FALSE]

(***************************************************************************)
(* Spec: one run of main() over a directory that starts empty.             *)
(***************************************************************************)
Init ==
    /\ config \in [start : ConfigMonths, end : ConfigMonths, skip_videos : BOOLEAN]
    /\ photos \in Listings
    /\ dirs = {}
    /\ files = <<>>
    /\ pc = "start"
    /\ run = 1
    /\ gen = NoGen
    /\ month = NoMonth
    /\ call = IdleCall
    /\ log = <<>>
    /\ plan = <<>>
    /\ calls = 0
    /\ named = NoName

Next ==
    \/ MainStart
    \/ MainMonth
    \/ MainCallDownload
    \/ DownloadEnter
    \/ DownloadAttempt
    \/ DownloadExhausted
    \/ MainAfterCall
    \/ MainDone

Spec == Init /\ [][Next]_vars

\* main() is one thread that runs until it returns: no step of it waits forever.
FairSpec == Spec /\ WF_vars(Next)

(***************************************************************************)
(* SpecRerun: main() run up to MaxRuns times in a row, over the same       *)
(* listing and the directory as the run before left it.                    *)
(***************************************************************************)
NextRerun == Next \/ MainRerun

SpecRerun == Init /\ [][NextRerun]_vars

(***************************************************************************)
(* SpecCall: direct calls of download_asset, one after the other, in one   *)
(* directory that starts empty.                                            *)
(***************************************************************************)
DirectCall ==
    /\ pc = "direct"
    /\ call.pc = "idle"
    /\ calls < MaxCalls
    /\ \E asset \in AssetPool, max_retries \in 0..MaxRetries :
          call' = NewCall(asset, CallDir, max_retries)
    /\ calls' = calls + 1
    /\ UNCHANGED <<config, photos, dirs, files, pc, run, gen, month, log, plan, named>>

InitCall ==
    /\ config \in [start : {<<>>}, end : {<<>>}, skip_videos : BOOLEAN]
    /\ photos = <<>>
    /\ dirs = {BaseDir, CallDir}
    /\ files = <<>>
    /\ pc = "direct"
    /\ run = 1
    /\ gen = NoGen
    /\ month = NoMonth
    /\ call = IdleCall
    /\ log = <<>>
    /\ plan = <<>>
    /\ calls = 0
    /\ named = NoName

NextCall ==
    \/ DirectCall
    \/ DownloadEnter
    \/ DownloadAttempt
    \/ DownloadExhausted
    \/ DirectReturn

SpecCall == InitCall /\ [][NextCall]_vars

(***************************************************************************)
(* SpecMonths: month_range(start, end) over any two year-month values.     *)
(***************************************************************************)
GenYield ==
    /\ pc = "gen"
    /\ GenHasNext(gen)
    /\ gen' = GenAdvance(gen)
    /\ UNCHANGED <<config, photos, dirs, files, pc, run, month, call, log, plan,
                   calls, named>>

GenStop ==
    /\ pc = "gen"
    /\ ~GenHasNext(gen)
    /\ pc' = "gen_done"
    /\ UNCHANGED <<config, photos, dirs, files, run, gen, month, call, log, plan,
                   calls, named>>

InitMonths ==
    /\ config \in [start : PlannerMonths, end : PlannerMonths, skip_videos : {FALSE}]
    /\ photos = <<>>
    /\ dirs = {}
    /\ files = <<>>
    /\ pc = "gen"
    /\ run = 1
    /\ gen = month_range(parse_month(config.start), parse_month(config.end))
    /\ month = NoMonth
    /\ call = IdleCall
    /\ log = <<>>
    /\ plan = <<>>
    /\ calls = 0
    /\ named = NoName

NextMonths == GenYield \/ GenStop

SpecMonths == InitMonths /\ [][NextMonths]_vars

(***************************************************************************)
(* SpecNames: the target name download_asset derives, for any asset.       *)
(***************************************************************************)
DeriveName ==
    /\ pc = "name"
    /\ ~named.done
    /\ named' = [named EXCEPT !.name = TargetName(named.asset), !.done = TRUE]
    /\ UNCHANGED <<config, photos, dirs, files, pc, run, gen, month, call, log, plan,
                   calls>>

InitNames ==
    /\ config = NoConfig
    /\ photos = <<>>
    /\ dirs = {}
    /\ files = <<>>
    /\ pc = "name"
    /\ run = 1
    /\ gen = NoGen
    /\ month = NoMonth
    /\ call = IdleCall
    /\ log = <<>>
    /\ plan = <<>>
    /\ calls = 0
    /\ named \in [asset : NameInputs, name : {<<>>}, done : {FALSE}]

NextNames == DeriveName

SpecNames == InitNames /\ [][NextNames]_vars

(***************************************************************************)
(* What the claims are stated with.  Instants and month numbers are        *)
(* counted here on the calendar itself, apart from the program's own       *)
(* comparisons and month arithmetic.                                       *)
(***************************************************************************)
ReservedCharacters == {"<", ">", ":", "\"", "/", "\\", "|", "?", "*"}

IsPrefix(s, t) == Len(s) <= Len(t) /\ \A k \in 1..Len(s) : s[k] = t[k]

RECURSIVE SumSeq(_)
SumSeq(s) == IF s = <<>> THEN 0 ELSE s[1] + SumSeq(Tail(s))

RECURSIVE Flatten(_)
Flatten(ss) == IF ss = <<>> THEN <<>> ELSE ss[1] \o Flatten(Tail(ss))

\* Months since year 0, and the first of the month of that number.
MonthNumber(dt) == dt.year * 12 + (dt.month - 1)
FirstOfMonth(i) == Dt(i \div 12, (i % 12) + 1, 1, 0, 0, 0, 0)

\* The first-of-months from start's month to end's month, both included.
CalendarMonths(start_dt, end_dt) ==
    [k \in 1..(MonthNumber(end_dt) - MonthNumber(start_dt) + 1) |->
        FirstOfMonth(MonthNumber(start_dt) + k - 1)]

CumulativeDays == <<0, 31, 59, 90, 120, 151, 181, 212, 243, 273, 304, 334>>
LeapDaysBefore(y) == ((y - 1) \div 4) - ((y - 1) \div 100) + ((y - 1) \div 400)

\* Days from 2000-01-01 to the date.
DayNumber(dt) ==
    365 * (dt.year - 2000) + (LeapDaysBefore(dt.year) - LeapDaysBefore(2000))
    + CumulativeDays[dt.month]
    + (IF dt.month > 2 /\ IsLeap(dt.year) THEN 1 ELSE 0) + (dt.day - 1)

\* The instant: seconds since 2000-01-01T00:00:00Z, and microseconds.
Instant(dt) ==
    <<DayNumber(dt) * 86400 + dt.hour * 3600 + dt.minute * 60 + dt.second,
      dt.microsecond>>

NotAfter(a, b) ==
    Instant(a)[1] < Instant(b)[1]
    \/ (Instant(a)[1] = Instant(b)[1] /\ Instant(a)[2] <= Instant(b)[2])

RECURSIVE Within(_, _, _)
\* The assets of the listing dated from first to last, in the listing's order.
Within(listing, first, last) ==
    IF listing = <<>> THEN <<>>
    ELSE LET a == listing[1]
             rest == Within(Tail(listing), first, last)
         IN IF a.created # Null /\ NotAfter(first, a.created) /\ NotAfter(a.created, last)
            THEN <<a>> \o rest ELSE rest

\* The entries of a history that belong to run r, in order.
RECURSIVE OfRun(_, _)
OfRun(h, r) ==
    IF h = <<>> THEN <<>>
    ELSE IF h[1].run = r THEN <<h[1]>> \o OfRun(Tail(h), r) ELSE OfRun(Tail(h), r)

\* (directory, asset) of each download_asset call of run r, in call order ...
CallsMade(r) ==
    LET h == OfRun(log, r) IN [k \in 1..Len(h) |-> <<h[k].out_dir, h[k].asset>>]

\* ... and of each asset matched by each month started in run r, in order.
CallsDue(r) ==
    LET h == OfRun(plan, r)
    IN Flatten([k \in 1..Len(h) |->
                  [i \in 1..Len(h[k].matched) |->
                      <<MonthTag(h[k].month_dt), h[k].matched[i].id>>]])

MonthsStarted(r) == LET h == OfRun(plan, r) IN [k \in 1..Len(h) |-> h[k].month_dt]

StartDt == parse_month(config.start)
EndDt == parse_month(config.end)

(***************************************************************************)
(* C1. Idempotent re-run: an asset whose download_asset call returned ok   *)
(* in the first run of main() gets skip in the second run over the same    *)
(* listing and directory, its download capability is not invoked again and *)
(* no file is written for it.                                              *)
(***************************************************************************)
C1_IdempotentRerun ==
    \A i, j \in 1..Len(log) :
        (/\ log[i].run = 1 /\ log[j].run = 2
         /\ log[i].asset = log[j].asset /\ log[i].out_dir = log[j].out_dir
         /\ log[i].status = "ok")
        => (log[j].status = "skip" /\ ~log[j].invoked /\ ~log[j].wrote)

(***************************************************************************)
(* C2. No partial file is taken for a completed download: after a call of  *)
(* download_asset returned error, a later call for the same asset and      *)
(* directory (no download to that path having succeeded in between) does   *)
(* not return skip.                                                        *)
(***************************************************************************)
C2_NoPartialFileSkipped ==
    \A i, j \in 1..Len(log) :
        (/\ i < j
         /\ log[i].asset = log[j].asset /\ log[i].out_dir = log[j].out_dir
         /\ log[i].status = "error"
         /\ \A k \in (i + 1)..(j - 1) :
               ~(log[k].status = "ok" /\ log[k].path = log[i].path))
        => log[j].status # "skip"

(***************************************************************************)
(* C3. Retry exhaustion: a call of download_asset whose every attempt      *)
(* failed returns error after exactly max_retries invocations of the       *)
(* download capability, having waited 1.5 * k seconds after the k-th       *)
(* failure: 9.0 seconds in all for max_retries = 3.  (Tenths of a second.) *)
(***************************************************************************)
C3_RetryExhaustion ==
    /\ call.pc = "loop" =>
          /\ call.invoked = call.attempt
          /\ call.attempt <= call.max_retries
    /\ (call.pc = "returned" /\ call.status \notin {"skipped_video", "skip", "ok"}) =>
          /\ call.status = "error"
          /\ call.invoked = call.max_retries
          /\ call.sleeps = [k \in 1..call.max_retries |-> 15 * k]
          /\ call.max_retries = 3 => SumSeq(call.sleeps) = 90

\* A call with max_retries = 3 has returned error, its target never opened:
\* the capability raised three times.
C3_Witness ==
    /\ call.pc = "returned"
    /\ call.status = "error"
    /\ call.max_retries = 3
    /\ call.last_err = "ConnectionError"
    /\ call.target_path \notin DOMAIN files

(***************************************************************************)
(* C4. A single asset failure is never fatal: when main() reports          *)
(* completion, the months it started are the planned ones, and the assets  *)
(* it passed to download_asset are those matched for each of them, each    *)
(* once and in listing order, whatever the earlier calls returned; and     *)
(* every run of main() that starts reaches its completion report.          *)
(***************************************************************************)
C4_FailureNeverFatal ==
    /\ [](pc = "done" =>
            /\ MonthsStarted(run) = CalendarMonths(StartDt, EndDt)
            /\ CallsMade(run) = CallsDue(run))
    /\ [](pc # "crashed")
    /\ ((pc = "start") ~> (pc = "done"))

\* A run is complete in which a call returned error and a later one was made.
C4_Witness ==
    /\ pc = "done"
    /\ \E i, j \in 1..Len(log) :
          /\ i < j
          /\ log[i].run = run /\ log[j].run = run
          /\ log[i].status = "error"
          /\ log[j].status = "ok"

(***************************************************************************)
(* C5. Video skip: with SKIP_VIDEOS set, download_asset on a video returns *)
(* skipped_video, the download capability not invoked, the filesystem      *)
(* neither read nor changed; and nothing else is returned skipped_video.   *)
(***************************************************************************)
C5_VideoSkip ==
    call.pc \in {"loop", "returned"} =>
        /\ (config.skip_videos /\ call.asset.item_type = "video") =>
              /\ call.pc = "returned"
              /\ call.status = "skipped_video"
              /\ call.invoked = 0
              /\ ~call.fs_used
              /\ files = call.fs0
        /\ (call.pc = "returned" /\ call.status = "skipped_video") =>
              (config.skip_videos /\ call.asset.item_type = "video")

\* A video has been skipped in a directory that holds a file.
C5_Witness ==
    /\ call.pc = "returned"
    /\ call.status = "skipped_video"
    /\ call.asset.item_type = "video"
    /\ DOMAIN files # {}

(***************************************************************************)
(* C6. Month range: month_range(start, end) yields the first-of-month of   *)
(* every calendar month from start's to end's, in order and each once,     *)
(* nothing when start > end; it never yields anything else, so it ends     *)
(* after at most that many yields.                                         *)
(***************************************************************************)
C6_MonthRange ==
    /\ IsPrefix(gen.yielded, CalendarMonths(StartDt, EndDt))
    /\ pc = "gen_done" => gen.yielded = CalendarMonths(StartDt, EndDt)
    /\ (pc = "gen_done" /\ ~NotAfter(StartDt, EndDt)) => gen.yielded = <<>>

\* A range that runs over a year's end has been yielded whole.
C6_Witness ==
    /\ pc = "gen_done"
    /\ Len(gen.yielded) >= 3
    /\ gen.yielded[1].year # gen.yielded[Len(gen.yielded)].year

(***************************************************************************)
(* C7. Month filtering: the assets main() matches for a month are exactly  *)
(* the assets of the listing with a creation timestamp t, first <= t <=    *)
(* last for the month's bounds, in the listing's order; an asset without   *)
(* timestamp is matched for no month.                                      *)
(***************************************************************************)
C7_MonthFiltering ==
    \A k \in 1..Len(plan) :
        /\ plan[k].matched = Within(photos, month_bounds(plan[k].month_dt)[1],
                                    month_bounds(plan[k].month_dt)[2])
        /\ \A i \in 1..Len(plan[k].matched) : plan[k].matched[i].created # Null

\* A month has matched an asset dated at its last bound, out of a listing that
\* also holds an asset it has not matched.
C7_Witness ==
    \E k \in 1..Len(plan) :
        /\ Len(plan[k].matched) = 1
        /\ plan[k].matched[1].created = month_bounds(plan[k].month_dt)[2]
        /\ Len(photos) = 2
        /\ \E i \in 1..2 : photos[i].created = Null

(***************************************************************************)
(* C8. Filename sanitization: the target filename download_asset uses,     *)
(* build_filename(asset) + file_ext(asset), holds no reserved character.   *)
(***************************************************************************)
C8_NoReservedCharacter ==
    named.done => \A k \in 1..Len(named.name) : named.name[k] \notin ReservedCharacters

(***************************************************************************)
(* C9. One file per asset: when download_asset returns skip for an asset,  *)
(* an earlier call for that asset returned ok for the same path; and two   *)
(* distinct assets are never given the same target path.                   *)
(***************************************************************************)
C9_OneFilePerAsset ==
    /\ \A j \in 1..Len(log) :
          log[j].status = "skip" =>
              \E i \in 1..(j - 1) :
                  /\ log[i].asset = log[j].asset
                  /\ log[i].path = log[j].path
                  /\ log[i].status = "ok"
    /\ \A i, j \in 1..Len(log) :
          (log[i].asset # log[j].asset /\ log[i].status # "skipped_video"
           /\ log[j].status # "skipped_video") => log[i].path # log[j].path

(***************************************************************************)
(* C10. Months partition the planned range: when main() is done, every     *)
(* asset of the listing dated in a calendar month from start's to end's is *)
(* matched by exactly one month of the run, its own calendar month.        *)
(***************************************************************************)
C10_MonthsPartition ==
    pc = "done" =>
        \A n \in 1..Len(photos) :
            LET a == photos[n]
                h == OfRun(plan, run)
                by == {k \in 1..Len(h) : \E i \in 1..Len(h[k].matched) : h[k].matched[i] = a}
            IN (/\ a.created # Null
                /\ MonthNumber(StartDt) <= MonthNumber(a.created)
                /\ MonthNumber(a.created) <= MonthNumber(EndDt))
               => /\ Cardinality(by) = 1
                  /\ \A k \in by : MonthNumber(h[k].month_dt) = MonthNumber(a.created)

====
